---- MODULE Spec2Model ----
(***************************************************************************)
(* Model of lib/rust/ensogl/core/src/debug/monitor/sampler.rs:             *)
(* ValueCheck::from_threshold, Sampler::value, Sampler::check, the details *)
(* extractor and the table of predefined samplers.                         *)
(*                                                                         *)
(* f64 numbers are modelled as IEEE-754 values in sign / magnitude form:   *)
(* NaN, the two infinities, and finite values neg * n / d (n, d naturals,  *)
(* d > 0, reduced), with both signed zeros.  Finite values are exact       *)
(* rationals: every quotient the predefined samplers form (a division by 1 *)
(* or by 2^20 of an integer below 2^31) is exact in f64 as well.  The two  *)
(* FRAME_TIME thresholds, 1000 / 55 and 1000 / 25, are kept as the exact   *)
(* quotients.                                                              *)
(***************************************************************************)
EXTENDS Integers, Sequences, FiniteSets

VARIABLES
    cw,       \* warn_threshold argument of a direct from_threshold call
    ce,       \* err_threshold argument of that call
    cv,       \* value argument of that call
    cout,     \* what the call returned ("none" before it returned)
    sampler,  \* the Sampler the callers read (immutable descriptor)
    stats,    \* the StatsData snapshot the callers read
    ret,      \* sequential caller: results of the calls made so far
    pc,       \* per reader: where the reader is inside its call
    local,    \* per reader: the `value` local of Sampler::check
    rret      \* per reader: the last call it completed, with its arguments

vars == <<cw, ce, cv, cout, sampler, stats, ret, pc, local, rret>>

----------------------------------------------------------------------------
(* f64 *)

RECURSIVE Gcd(_, _)
Gcd(a, b) == IF b = 0 THEN a ELSE Gcd(b, a % b)

NaN == [k |-> "nan", neg |-> FALSE, n |-> 0, d |-> 1]

Inf(neg) == [k |-> "inf", neg |-> neg, n |-> 0, d |-> 1]

PInf == Inf(FALSE)

NInf == Inf(TRUE)

\* The finite value (-1)^neg * n / d, reduced.
Fin(neg, n, d) ==
    LET g == Gcd(n, d)
    IN  [k |-> "fin", neg |-> neg, n |-> n \div g, d |-> d \div g]

\* The f64 of an integer (also what `as f64` gives for the counters).
Num(i) == IF i < 0 THEN Fin(TRUE, -i, 1) ELSE Fin(FALSE, i, 1)

NegZero == Fin(TRUE, 0, 1)

IsNaN(x) == x.k = "nan"

IsFinite(x) == x.k = "fin"

IsZero(x) == x.k = "fin" /\ x.n = 0

\* Signed numerator of a finite value.
SNum(x) == IF x.neg THEN -x.n ELSE x.n

\* x <= y on the extended reals (neither is NaN; -0 and +0 are equal).
LeOrd(x, y) ==
    CASE x.k = "inf" /\ x.neg -> TRUE
      [] y.k = "inf" /\ ~y.neg -> TRUE
      [] x.k = "inf" -> FALSE
      [] y.k = "inf" -> FALSE
      [] OTHER -> SNum(x) * y.d <= SNum(y) * x.d

\* The f64 comparison operators: every comparison with NaN is false.
FLe(x, y) == ~IsNaN(x) /\ ~IsNaN(y) /\ LeOrd(x, y)

FGe(x, y) == FLe(y, x)

FLt(x, y) == ~IsNaN(x) /\ ~IsNaN(y) /\ ~LeOrd(y, x)

FGt(x, y) == FLt(y, x)

\* The f64 division x / y.
FDiv(x, y) ==
    LET neg == (x.neg # y.neg)
    IN  CASE IsNaN(x) \/ IsNaN(y) -> NaN
          [] x.k = "inf" /\ y.k = "inf" -> NaN
          [] x.k = "inf" -> Inf(neg)
          [] y.k = "inf" -> Fin(neg, 0, 1)
          [] IsZero(y) /\ IsZero(x) -> NaN
          [] IsZero(y) -> Inf(neg)
          [] OTHER -> Fin(neg, x.n * y.d, x.d * y.n)

----------------------------------------------------------------------------
(* ValueCheck *)

ValueCheck == {"Correct", "Warning", "Error"}

FromThresholdFlipped(warn_threshold, err_threshold, value) ==
    IF FGe(warn_threshold, err_threshold)
    THEN IF FGe(value, warn_threshold) THEN "Correct"
         ELSE IF FGe(value, err_threshold) THEN "Warning"
         ELSE "Error"
    ELSE IF FLe(value, warn_threshold) THEN "Correct"
         ELSE IF FLe(value, err_threshold) THEN "Warning"
         ELSE "Error"

FromThresholdAscendingOnly(warn_threshold, err_threshold, value) ==
    IF FGe(value, warn_threshold) THEN "Correct"
    ELSE IF FGe(value, err_threshold) THEN "Warning"
    ELSE "Error"

FromThresholdStrict(warn_threshold, err_threshold, value) ==
    IF FGt(warn_threshold, err_threshold)
    THEN IF FGt(value, warn_threshold) THEN "Correct"
         ELSE IF FGt(value, err_threshold) THEN "Warning"
         ELSE "Error"
    ELSE IF FLt(value, warn_threshold) THEN "Correct"
         ELSE IF FLt(value, err_threshold) THEN "Warning"
         ELSE "Error"

from_threshold(warn_threshold, err_threshold, value) ==
    IF FGt(warn_threshold, err_threshold)
    THEN IF FGe(value, warn_threshold) THEN "Correct"
         ELSE IF FGe(value, err_threshold) THEN "Warning"
         ELSE "Error"
    ELSE IF FLe(value, warn_threshold) THEN "Correct"
         ELSE IF FLe(value, err_threshold) THEN "Warning"
         ELSE "Error"

----------------------------------------------------------------------------
(* Option<T>: None, or Some(x) *)

None == <<>>

Some(x) == <<x>>

IsSome(o) == o # <<>>

Unwrap(o) == o[1]

----------------------------------------------------------------------------
(* StatsData: the snapshot the samplers read *)

MBDecimal == Num(1000 * 1000)

MB == Num(1024 * 1024)

\* 1024 * 1024 as an integer, to write byte counts.
MBytes == 1024 * 1024

MaxDrawCalls == 3

DrawCallNames == {"mesh", "glyph"}

\* Every draw-call list of at most MaxDrawCalls descriptions.
DrawCallLists ==
    UNION {[1..len -> DrawCallNames] : len \in 0..MaxDrawCalls}

BaseStats ==
    [fps                  |-> Num(60),
     frame_time           |-> Num(16),
     wasm_memory_usage    |-> 1,
     gpu_memory_usage     |-> 2,
     draw_calls           |-> <<"mesh">>,
     buffer_count         |-> 3,
     data_upload_count    |-> 4,
     data_upload_size     |-> 5,
     sprite_system_count  |-> 6,
     symbol_count         |-> 7,
     sprite_count         |-> 8,
     shader_count         |-> 9,
     shader_compile_count |-> 11]

FpsValues ==
    {NaN, NInf, PInf, NegZero, Fin(FALSE, 49, 2), Fin(FALSE, 109, 2)}
        \cup {Num(i) : i \in {-1, 0, 10, 25, 40, 55, 60, 120}}

FrameTimeValues ==
    {NaN, PInf} \cup {Num(i) : i \in {0, 18, 19, 40, 41}}

CountValues == {0, 100, 101, 500, 501}

\* The snapshots: the base snapshot with one field changed.
Snapshots ==
    {[BaseStats EXCEPT !.fps = x] : x \in FpsValues}
    \cup {[BaseStats EXCEPT !.frame_time = x] : x \in FrameTimeValues}
    \cup {[BaseStats EXCEPT !.wasm_memory_usage = x] :
            x \in {0, 50 * MBytes, 50 * MBytes + 1, 60 * MBytes,
                   100 * MBytes, 100 * MBytes + 1}}
    \cup {[BaseStats EXCEPT !.gpu_memory_usage = x] :
            x \in {0, 100 * MBytes, 100 * MBytes + 1,
                   500 * MBytes, 500 * MBytes + 1}}
    \cup {[BaseStats EXCEPT !.draw_calls = x] : x \in DrawCallLists}
    \cup {[BaseStats EXCEPT !.buffer_count = x] : x \in CountValues}
    \cup {[BaseStats EXCEPT !.data_upload_count = x] : x \in CountValues}
    \cup {[BaseStats EXCEPT !.data_upload_size = x] :
            x \in {0, MBytes, MBytes + 1, 10 * MBytes, 10 * MBytes + 1}}
    \cup {[BaseStats EXCEPT !.sprite_system_count = x] : x \in CountValues}
    \cup {[BaseStats EXCEPT !.symbol_count = x] : x \in CountValues}
    \cup {[BaseStats EXCEPT !.sprite_count = x] :
            x \in {0, 100000, 100001, 500000, 500001}}
    \cup {[BaseStats EXCEPT !.shader_count = x] : x \in CountValues}
    \cup {[BaseStats EXCEPT !.shader_compile_count = x] :
            x \in {0, 10, 11, 100, 101}}

----------------------------------------------------------------------------
(* Sampler *)

\* The `expr` closures, named by the sampler that holds them.
ApplyExpr(expr, s) ==
    CASE expr = "default"              -> Num(0)
      [] expr = "fps"                  -> s.fps
      [] expr = "frame_time"           -> s.frame_time
      [] expr = "wasm_memory_usage"    -> Num(s.wasm_memory_usage)
      [] expr = "gpu_memory_usage"     -> Num(s.gpu_memory_usage)
      [] expr = "draw_calls"           -> Num(Len(s.draw_calls))
      [] expr = "buffer_count"         -> Num(s.buffer_count)
      [] expr = "data_upload_count"    -> Num(s.data_upload_count)
      [] expr = "data_upload_size"     -> Num(s.data_upload_size)
      [] expr = "sprite_system_count"  -> Num(s.sprite_system_count)
      [] expr = "symbol_count"         -> Num(s.symbol_count)
      [] expr = "sprite_count"         -> Num(s.sprite_count)
      [] expr = "shader_count"         -> Num(s.shader_count)
      [] expr = "shader_compile_count" -> Num(s.shader_compile_count)

RECURSIVE Reversed(_)
Reversed(q) == IF q = <<>> THEN <<>> ELSE Append(Reversed(Tail(q)), Head(q))

ApplyDetailsReversed(s) == Reversed(s.draw_calls)

\* The `details` closure of DRAW_CALL_COUNT: |s| &s.draw_calls.
ApplyDetails(s) == s.draw_calls

DEFAULT_SAMPLER ==
    [label          |-> "Unlabeled",
     expr           |-> "default",
     details        |-> None,
     warn_threshold |-> Num(0),
     err_threshold  |-> Num(0),
     value_divisor  |-> Num(1),
     min_value      |-> None,
     max_value      |-> None,
     precision      |-> 0]

FpsThresholdsSwapped ==
    [DEFAULT_SAMPLER EXCEPT
        !.label = "Frames per second",
        !.expr = "fps",
        !.warn_threshold = Num(25),
        !.err_threshold = Num(55),
        !.precision = 2,
        !.max_value = Some(Num(60))]

FPS ==
    [DEFAULT_SAMPLER EXCEPT
        !.label = "Frames per second",
        !.expr = "fps",
        !.warn_threshold = Num(55),
        !.err_threshold = Num(25),
        !.precision = 2,
        !.max_value = Some(Num(60))]

FRAME_TIME ==
    [DEFAULT_SAMPLER EXCEPT
        !.label = "Frame time (ms)",
        !.expr = "frame_time",
        !.warn_threshold = FDiv(Num(1000), Num(55)),
        !.err_threshold = FDiv(Num(1000), Num(25)),
        !.precision = 2]

WASM_MEMORY_USAGE ==
    [DEFAULT_SAMPLER EXCEPT
        !.label = "WASM memory usage (Mb)",
        !.expr = "wasm_memory_usage",
        !.warn_threshold = Num(50),
        !.err_threshold = Num(100),
        !.precision = 2,
        !.value_divisor = MB]

GPU_MEMORY_USAGE ==
    [DEFAULT_SAMPLER EXCEPT
        !.label = "GPU memory usage (Mb)",
        !.expr = "gpu_memory_usage",
        !.warn_threshold = Num(100),
        !.err_threshold = Num(500),
        !.precision = 2,
        !.value_divisor = MB]

DRAW_CALL_COUNT ==
    [DEFAULT_SAMPLER EXCEPT
        !.label = "Draw call count",
        !.expr = "draw_calls",
        !.details = Some("draw_calls"),
        !.warn_threshold = Num(100),
        !.err_threshold = Num(500)]

BUFFER_COUNT ==
    [DEFAULT_SAMPLER EXCEPT
        !.label = "Buffer count",
        !.expr = "buffer_count",
        !.warn_threshold = Num(100),
        !.err_threshold = Num(500)]

DATA_UPLOAD_COUNT ==
    [DEFAULT_SAMPLER EXCEPT
        !.label = "Data upload count",
        !.expr = "data_upload_count",
        !.warn_threshold = Num(100),
        !.err_threshold = Num(500)]

DATA_UPLOAD_SIZE ==
    [DEFAULT_SAMPLER EXCEPT
        !.label = "Data upload size (Mb)",
        !.expr = "data_upload_size",
        !.warn_threshold = Num(1),
        !.err_threshold = Num(10),
        !.precision = 2,
        !.value_divisor = MB]

SPRITE_SYSTEM_COUNT ==
    [DEFAULT_SAMPLER EXCEPT
        !.label = "Sprite system count",
        !.expr = "sprite_system_count",
        !.warn_threshold = Num(100),
        !.err_threshold = Num(500)]

SYMBOL_COUNT ==
    [DEFAULT_SAMPLER EXCEPT
        !.label = "Symbol count",
        !.expr = "symbol_count",
        !.warn_threshold = Num(100),
        !.err_threshold = Num(500)]

SPRITE_COUNT ==
    [DEFAULT_SAMPLER EXCEPT
        !.label = "Sprite count",
        !.expr = "sprite_count",
        !.warn_threshold = Num(100000),
        !.err_threshold = Num(500000)]

SHADER_COUNT ==
    [DEFAULT_SAMPLER EXCEPT
        !.label = "Shader count",
        !.expr = "shader_count",
        !.warn_threshold = Num(100),
        !.err_threshold = Num(500)]

SHADER_COMPILE_COUNT ==
    [DEFAULT_SAMPLER EXCEPT
        !.label = "Shader compile count",
        !.expr = "shader_compile_count",
        !.warn_threshold = Num(10),
        !.err_threshold = Num(100)]

\* The predefined samplers of the module.
PredefinedSamplers ==
    {FPS, FRAME_TIME, WASM_MEMORY_USAGE, GPU_MEMORY_USAGE, DRAW_CALL_COUNT,
     BUFFER_COUNT, DATA_UPLOAD_COUNT, DATA_UPLOAD_SIZE, SPRITE_SYSTEM_COUNT,
     SYMBOL_COUNT, SPRITE_COUNT, SHADER_COUNT, SHADER_COMPILE_COUNT}

\* Samplers a user of the public struct builds from the default: every
\* field is public, so any divisor and any thresholds can be given.
CustomSamplers ==
    {[DEFAULT_SAMPLER EXCEPT
        !.label = "Custom",
        !.expr = x,
        !.value_divisor = dv,
        !.warn_threshold = t[1],
        !.err_threshold = t[2],
        !.min_value = Some(Num(0)),
        !.max_value = Some(Num(10))] :
        x \in {"fps", "buffer_count"},
        dv \in {Num(0), NegZero, Num(2), Num(-4), PInf, NaN},
        t \in {<<Num(30), Num(50)>>, <<Num(50), Num(30)>>,
               <<Num(30), Num(30)>>}}

Samplers == {DEFAULT_SAMPLER} \cup PredefinedSamplers \cup CustomSamplers

\* value clamped to the sampler's min_value / max_value.
SamplerValueClamped(self, s) ==
    LET v == FDiv(ApplyExpr(self.expr, s), self.value_divisor)
        lo == IF IsSome(self.min_value) /\ FLt(v, Unwrap(self.min_value))
              THEN Unwrap(self.min_value) ELSE v
    IN  IF IsSome(self.max_value) /\ FGt(lo, Unwrap(self.max_value))
        THEN Unwrap(self.max_value) ELSE lo

\* Sampler::value
SamplerValue(self, s) ==
    LET raw_value == ApplyExpr(self.expr, s)
    IN  FDiv(raw_value, self.value_divisor)

\* check with the thresholds compared against the raw extracted value.
SamplerCheckRaw(self, s) ==
    from_threshold(self.warn_threshold, self.err_threshold,
                   ApplyExpr(self.expr, s))

\* Sampler::check
SamplerCheck(self, s) ==
    LET value == SamplerValue(self, s)
    IN  from_threshold(self.warn_threshold, self.err_threshold, value)

\* The details of a sampler for a snapshot: self.details.map(|f| f(s)).
SamplerDetails(self, s) ==
    IF IsSome(self.details)
    THEN Some(ApplyDetails(s))
    ELSE None

----------------------------------------------------------------------------
(* Direct calls of ValueCheck::from_threshold *)

ThresholdSamples ==
    {NaN, NInf, PInf, NegZero} \cup {Num(i) : i \in {-2, 0, 25, 55}}

ValueSamples ==
    {NaN, NInf, PInf, NegZero, Fin(FALSE, 49, 2), Fin(TRUE, 5, 2)}
        \cup {Num(i) : i \in {-3, -2, -1, 0, 1, 24, 25, 26, 54, 55, 56}}

NReaders == 2

Readers == 1..NReaders

NoRet == [value |-> None, check |-> None, details |-> None]

\* The state of the parts a specification does not use.
IdleReaders ==
    /\ pc = [r \in Readers |-> "idle"]
    /\ local = [r \in Readers |-> None]
    /\ rret = [r \in Readers |-> None]

NoDirectCall ==
    /\ cw = Num(0)
    /\ ce = Num(0)
    /\ cv = Num(0)
    /\ cout = "none"

InitClassify ==
    /\ cw \in ThresholdSamples
    /\ ce \in ThresholdSamples
    /\ cv \in ValueSamples
    /\ cout = "none"
    /\ sampler = DEFAULT_SAMPLER
    /\ stats = BaseStats
    /\ ret = NoRet
    /\ IdleReaders

\* let out = ValueCheck::from_threshold(cw, ce, cv)
FromThresholdCall ==
    /\ cout' = from_threshold(cw, ce, cv)
    /\ UNCHANGED <<cw, ce, cv, sampler, stats, ret, pc, local, rret>>

NextClassify == FromThresholdCall

SpecClassify == InitClassify /\ [][NextClassify]_vars

----------------------------------------------------------------------------
(* One caller evaluating a sampler against a snapshot *)

Init ==
    /\ sampler \in Samplers
    /\ stats \in Snapshots
    /\ ret = NoRet
    /\ NoDirectCall
    /\ IdleReaders

\* sampler.value(&stats)
ValueCall ==
    /\ ret' = [ret EXCEPT !.value = Some(SamplerValue(sampler, stats))]
    /\ UNCHANGED <<cw, ce, cv, cout, sampler, stats, pc, local, rret>>

\* sampler.check(&stats)
CheckCall ==
    /\ ret' = [ret EXCEPT !.check = Some(SamplerCheck(sampler, stats))]
    /\ UNCHANGED <<cw, ce, cv, cout, sampler, stats, pc, local, rret>>

\* sampler.details.map(|f| f(&stats))
DetailsCall ==
    /\ ret' = [ret EXCEPT !.details = Some(SamplerDetails(sampler, stats))]
    /\ UNCHANGED <<cw, ce, cv, cout, sampler, stats, pc, local, rret>>

Next == ValueCall \/ CheckCall \/ DetailsCall

Spec == Init /\ [][Next]_vars

----------------------------------------------------------------------------
(* Equal thresholds: direct calls, and the default sampler's check *)

InitDegenerate ==
    /\ cw \in ThresholdSamples
    /\ ce \in {x \in ThresholdSamples : x = cw \/ (FLe(x, cw) /\ FLe(cw, x))}
    /\ cv \in ValueSamples
    /\ cout = "none"
    /\ sampler = DEFAULT_SAMPLER
    /\ stats \in Snapshots
    /\ ret = NoRet
    /\ IdleReaders

NextDegenerate == FromThresholdCall \/ CheckCall

SpecDegenerate == InitDegenerate /\ [][NextDegenerate]_vars

----------------------------------------------------------------------------
(* Several readers sharing one sampler and the current snapshot *)

ReaderSamplers == {FPS, WASM_MEMORY_USAGE, DRAW_CALL_COUNT}

ReaderSnapshots ==
    {BaseStats,
     [BaseStats EXCEPT !.fps = Num(40)],
     [BaseStats EXCEPT !.wasm_memory_usage = 60 * MBytes],
     [BaseStats EXCEPT !.draw_calls = <<"mesh", "glyph">>]}

\* What a completed call leaves with its reader.
Returned(op, result) ==
    Some([op |-> op, sampler |-> sampler, stats |-> stats, result |-> result])

InitReaders ==
    /\ sampler \in ReaderSamplers
    /\ stats \in ReaderSnapshots
    /\ ret = NoRet
    /\ NoDirectCall
    /\ IdleReaders

\* Reader r calls sampler.value(&stats).
ReaderValue(r) ==
    /\ pc[r] = "idle"
    /\ rret' = [rret EXCEPT ![r] = Returned("value", SamplerValue(sampler, stats))]
    /\ UNCHANGED <<cw, ce, cv, cout, sampler, stats, ret, pc, local>>

\* Reader r enters sampler.check(&stats): let value = self.value(stats).
ReaderCheckValue(r) ==
    /\ pc[r] = "idle"
    /\ local' = [local EXCEPT ![r] = Some(SamplerValue(sampler, stats))]
    /\ pc' = [pc EXCEPT ![r] = "classify"]
    /\ UNCHANGED <<cw, ce, cv, cout, sampler, stats, ret, rret>>

\* A check that answers from the reader's last check, when it has one.
ReaderCheckMemoized(r) ==
    /\ pc[r] = "classify"
    /\ rret' = [rret EXCEPT ![r] =
                  IF IsSome(rret[r]) /\ Unwrap(rret[r]).op = "check"
                  THEN Returned("check", Unwrap(rret[r]).result)
                  ELSE Returned("check",
                                from_threshold(sampler.warn_threshold,
                                               sampler.err_threshold,
                                               Unwrap(local[r])))]
    /\ pc' = [pc EXCEPT ![r] = "idle"]
    /\ local' = [local EXCEPT ![r] = None]
    /\ UNCHANGED <<cw, ce, cv, cout, sampler, stats, ret>>

\* Reader r leaves sampler.check: ValueCheck::from_threshold(.., value).
ReaderCheckReturn(r) ==
    /\ pc[r] = "classify"
    /\ rret' = [rret EXCEPT ![r] =
                  Returned("check",
                           from_threshold(sampler.warn_threshold,
                                          sampler.err_threshold,
                                          Unwrap(local[r])))]
    /\ pc' = [pc EXCEPT ![r] = "idle"]
    /\ local' = [local EXCEPT ![r] = None]
    /\ UNCHANGED <<cw, ce, cv, cout, sampler, stats, ret>>

\* The collector publishes the next snapshot.  Every call borrows the
\* snapshot (&StatsData) for its whole duration, so it is replaced only
\* while no call is running.
Tick ==
    /\ \A r \in Readers : pc[r] = "idle"
    /\ stats' \in ReaderSnapshots \ {stats}
    /\ UNCHANGED <<cw, ce, cv, cout, sampler, ret, pc, local, rret>>

ReaderStep(r) == ReaderValue(r) \/ ReaderCheckValue(r) \/ ReaderCheckReturn(r)

NextReaders == (\E r \in Readers : ReaderStep(r)) \/ Tick

SpecReaders == InitReaders /\ [][NextReaders]_vars

----------------------------------------------------------------------------
(* Properties *)

\* x == y as f64 compares them (-0 == +0, NaN equals nothing).
FEq(x, y) == FLe(x, y) /\ FLe(y, x)

\* The exact product x * y of two finite values.
FMul(x, y) ==
    LET g1 == Gcd(x.n, y.d)
        g2 == Gcd(y.n, x.d)
    IN  Fin(x.neg # y.neg, (x.n \div g1) * (y.n \div g2),
            (x.d \div g2) * (y.d \div g1))

Called == cout # "none"

\* C1: ascending mode.  For thresholds w > e and a finite value v,
\* from_threshold(w, e, v) is Correct exactly when v >= w, Warning exactly
\* when e <= v < w, Error exactly when v < e; and from_threshold(w, e, w) is
\* Correct, from_threshold(w, e, e) is Warning.
AscendingLaw ==
    (Called /\ FGt(cw, ce)) =>
        /\ IsFinite(cv) =>
            /\ (cout = "Correct") <=> FGe(cv, cw)
            /\ (cout = "Warning") <=> (FGe(cv, ce) /\ FLt(cv, cw))
            /\ (cout = "Error") <=> FLt(cv, ce)
        /\ cv = cw => cout = "Correct"
        /\ cv = ce => cout = "Warning"

AscendingWitness ==
    /\ Called /\ FGt(cw, ce) /\ IsFinite(cw) /\ IsFinite(ce)
    /\ cv = ce /\ cout = "Warning"

\* C2: descending mode.  For thresholds w <= e and a finite value v,
\* from_threshold(w, e, v) is Correct exactly when v <= w, Warning exactly
\* when w < v <= e, Error exactly when v > e.
DescendingLaw ==
    (Called /\ FLe(cw, ce) /\ IsFinite(cv)) =>
        /\ (cout = "Correct") <=> FLe(cv, cw)
        /\ (cout = "Warning") <=> (FGt(cv, cw) /\ FLe(cv, ce))
        /\ (cout = "Error") <=> FGt(cv, ce)

DescendingWitness ==
    /\ Called /\ FLt(cw, ce) /\ IsFinite(cw) /\ IsFinite(ce)
    /\ IsFinite(cv) /\ FGt(cv, cw) /\ FLt(cv, ce) /\ cout = "Warning"

\* C3: a non-finite value (NaN, +infinity, -infinity) classifies as Error
\* for every pair of thresholds, w > e as well as w <= e.
NonFiniteIsError ==
    (Called /\ (FGt(cw, ce) \/ FLe(cw, ce)) /\ ~IsFinite(cv))
        => cout = "Error"

\* C4: equal thresholds w == e.  No value is classified Warning; every
\* v <= w is Correct and every v > w is Error; and the default sampler
\* checks as Correct for every snapshot.
DegenerateLaw ==
    /\ (Called /\ FEq(cw, ce)) =>
        /\ cout # "Warning"
        /\ FLe(cv, cw) => cout = "Correct"
        /\ FGt(cv, cw) => cout = "Error"
    /\ (IsSome(ret.check) /\ sampler = DEFAULT_SAMPLER) =>
        Unwrap(ret.check) = "Correct"

DegenerateWitness ==
    /\ Called /\ FEq(cw, ce) /\ IsFinite(cw)
    /\ FLt(cv, cw) /\ cout = "Correct"
    /\ sampler = DEFAULT_SAMPLER /\ ret.check = Some("Correct")

\* C5: value(snapshot) is expr(snapshot) divided by value_divisor: for a
\* finite extracted value and a finite non-zero divisor the result times
\* the divisor is the extracted value, a divisor of 1 returns the extracted
\* value itself, the result is not clamped to min_value / max_value (FPS
\* returns 120 for fps = 120), and the divisor of the default and of every
\* predefined sampler is finite and not zero.
ValueLaw ==
    /\ IsSome(ret.value) =>
        LET v == Unwrap(ret.value)
            raw == ApplyExpr(sampler.expr, stats)
            dv == sampler.value_divisor
        IN  /\ (IsFinite(raw) /\ IsFinite(dv) /\ ~IsZero(dv)) =>
                (IsFinite(v) /\ FMul(v, dv) = raw)
            /\ dv = Num(1) => v = raw
            /\ (sampler = FPS /\ stats.fps = Num(120)) => v = Num(120)
    /\ sampler \in PredefinedSamplers \cup {DEFAULT_SAMPLER} =>
        (IsFinite(sampler.value_divisor) /\ ~IsZero(sampler.value_divisor))

ValueWitness ==
    /\ sampler = FPS /\ stats.fps = Num(120)
    /\ sampler.max_value = Some(Num(60))
    /\ ret.value = Some(Num(120))

\* C6: check(snapshot) is from_threshold(warn_threshold, err_threshold, v)
\* where v is what value(snapshot) returns: the divided value, not the raw
\* extracted one, with the sampler's thresholds in that order.
CheckLaw ==
    (IsSome(ret.check) /\ IsSome(ret.value)) =>
        Unwrap(ret.check) =
            from_threshold(sampler.warn_threshold, sampler.err_threshold,
                           Unwrap(ret.value))

CheckWitness ==
    /\ sampler = WASM_MEMORY_USAGE
    /\ stats.wasm_memory_usage = 60 * MBytes
    /\ ret.value = Some(Num(60))
    /\ ret.check = Some("Warning")

\* C7: DRAW_CALL_COUNT's details are the snapshot's draw-call descriptions,
\* same length and order, and its value is their number; the default and
\* every other predefined sampler (every sampler without a details
\* extractor) has no details.
DetailsLaw ==
    /\ (IsSome(ret.details) /\ sampler = DRAW_CALL_COUNT) =>
        /\ IsSome(Unwrap(ret.details))
        /\ LET d == Unwrap(Unwrap(ret.details))
           IN  /\ Len(d) = Len(stats.draw_calls)
               /\ \A i \in 1..Len(d) : d[i] = stats.draw_calls[i]
    /\ (IsSome(ret.value) /\ sampler = DRAW_CALL_COUNT) =>
        Unwrap(ret.value) = Num(Len(stats.draw_calls))
    /\ (/\ IsSome(ret.details)
        /\ \/ sampler \in (PredefinedSamplers \cup {DEFAULT_SAMPLER})
                             \ {DRAW_CALL_COUNT}
           \/ sampler.details = None) =>
        Unwrap(ret.details) = None

DetailsWitness ==
    /\ sampler = DRAW_CALL_COUNT
    /\ stats.draw_calls = <<"mesh", "glyph", "glyph">>
    /\ ret.details = Some(Some(<<"mesh", "glyph", "glyph">>))
    /\ ret.value = Some(Num(3))

\* C8 as stated: for every snapshot the FPS sampler's value is fps, and its
\* check is Correct exactly when fps >= 55, Warning exactly when
\* 25 <= fps < 55, Error exactly when fps < 25.
FpsLawEverySnapshot ==
    (sampler = FPS /\ IsSome(ret.value) /\ IsSome(ret.check)) =>
        LET fps == stats.fps
            c == Unwrap(ret.check)
        IN  /\ Unwrap(ret.value) = fps
            /\ (c = "Correct") <=> FGe(fps, Num(55))
            /\ (c = "Warning") <=> (FGe(fps, Num(25)) /\ FLt(fps, Num(55)))
            /\ (c = "Error") <=> FLt(fps, Num(25))

\* C8, amended: the same for every snapshot whose fps is not NaN; for a NaN
\* fps the value is NaN and the check is Error.
FpsLaw ==
    (sampler = FPS /\ IsSome(ret.value) /\ IsSome(ret.check)) =>
        LET fps == stats.fps
            c == Unwrap(ret.check)
        IN  /\ Unwrap(ret.value) = fps
            /\ ~IsNaN(fps) =>
                /\ (c = "Correct") <=> FGe(fps, Num(55))
                /\ (c = "Warning") <=>
                       (FGe(fps, Num(25)) /\ FLt(fps, Num(55)))
                /\ (c = "Error") <=> FLt(fps, Num(25))
            /\ IsNaN(fps) => c = "Error"
            /\ fps = Num(60) => c = "Correct"
            /\ fps = Num(40) => c = "Warning"
            /\ fps = Num(10) => c = "Error"

FpsWitness ==
    /\ sampler = FPS /\ stats.fps = Num(40)
    /\ ret.value = Some(Num(40)) /\ ret.check = Some("Warning")

\* C9: WASM_MEMORY_USAGE's value is the byte count divided by 1,048,576,
\* and its check is Correct exactly when that quotient is <= 50 (the byte
\* count is <= 50 * 1,048,576), Warning exactly when it is > 50 and <= 100,
\* Error exactly when it is > 100; 60 * 1,048,576 bytes give 60, Warning.
WasmLaw ==
    (sampler = WASM_MEMORY_USAGE /\ IsSome(ret.value) /\ IsSome(ret.check)) =>
        LET bytes == stats.wasm_memory_usage
            q == Unwrap(ret.value)
            c == Unwrap(ret.check)
        IN  /\ IsFinite(q) /\ ~q.neg
            /\ FMul(q, Num(1048576)) = Num(bytes)
            /\ (c = "Correct") <=> bytes <= 50 * 1048576
            /\ (c = "Warning") <=>
                   (bytes > 50 * 1048576 /\ bytes <= 100 * 1048576)
            /\ (c = "Error") <=> bytes > 100 * 1048576
            /\ (c = "Correct") <=> FLe(q, Num(50))
            /\ (c = "Warning") <=> (FGt(q, Num(50)) /\ FLe(q, Num(100)))
            /\ (c = "Error") <=> FGt(q, Num(100))
            /\ bytes = 60 * 1048576 => (q = Num(60) /\ c = "Warning")

WasmWitness ==
    /\ sampler = WASM_MEMORY_USAGE
    /\ stats.wasm_memory_usage = 50 * MBytes + 1
    /\ IsSome(ret.value) /\ FGt(Unwrap(ret.value), Num(50))
    /\ ret.check = Some("Warning")

\* Two completed calls of the same operation with the same arguments have
\* the same result.
SameCallsAgree ==
    \A r1, r2 \in Readers :
        (IsSome(rret[r1]) /\ IsSome(rret[r2])) =>
            LET a == Unwrap(rret[r1])
                b == Unwrap(rret[r2])
            IN  (a.op = b.op /\ a.sampler = b.sampler /\ a.stats = b.stats)
                    => a.result = b.result

\* C10: whatever the interleaving of the readers' value and check calls,
\* calls with the same sampler and snapshot return the same result, and no
\* step of a call changes the snapshot or the sampler.
Purity ==
    /\ []SameCallsAgree
    /\ [][(\E r \in Readers : ReaderStep(r))
            => UNCHANGED <<sampler, stats>>]_vars

\* Reader 2 holds the result of a check of the current snapshot, reader 1
\* the different result of a check of an earlier snapshot, and reader 1 is
\* inside a further check.
PurityWitness ==
    /\ IsSome(rret[1]) /\ IsSome(rret[2])
    /\ Unwrap(rret[1]).op = "check" /\ Unwrap(rret[1]).stats # stats
    /\ Unwrap(rret[2]).op = "check" /\ Unwrap(rret[2]).stats = stats
    /\ Unwrap(rret[1]).result # Unwrap(rret[2]).result
    /\ pc[1] = "classify"

====
